---- MODULE Spec2Model ----
(***************************************************************************)
(* Lead-management dashboard: the retry-governed generation-API layer      *)
(* (services/geminiService.ts), the discovery view (LeadDiscovery.tsx) and *)
(* the App-level lead store.                                               *)
(***************************************************************************)
EXTENDS Integers, Sequences, FiniteSets, TLC

\* ------------------------------------------------------------------ bounds
MaxRetriesBound == 4        \* largest maxRetries argument explored
DefaultMaxRetries == 3      \* geminiService.ts:14  (maxRetries = 3)
JitterBound == 1000         \* geminiService.ts:26  (Math.random() * 1000)
BaseDelay == 1000           \* geminiService.ts:26  (Math.pow(2, i) * 1000)

\* ------------------------------------------------------------------ errors
\* An error value is a record: message is a sequence of words, status a
\* number (0 when the error carries no status).
Undefined == [kind |-> "undefined"]

Err(m, s) == [kind |-> "error", message |-> m, status |-> s]

ErrMsg429     == Err(<<"got", "429", "Too", "Many", "Requests">>, 0)
ErrMsgQuota   == Err(<<"quota", "exceeded">>, 0)
ErrStatus429  == Err(<<"Resource", "exhausted">>, 429)
ErrNetwork    == Err(<<"fetch", "failed">>, 0)
ErrServer     == Err(<<"internal", "error">>, 500)
ErrNoMessage  == Err(<<>>, 0)
ErrEmptyQualification == Err(<<"No", "response", "from", "qualification">>, 0)
ErrEmptyEmail == Err(<<"No", "response", "for", "email", "generation">>, 0)
ErrSyntax     == Err(<<"Unexpected", "token", "in", "JSON">>, 0)

ApiErrors == {ErrMsg429, ErrMsgQuota, ErrStatus429, ErrNetwork, ErrServer, ErrNoMessage}

\* String.prototype.includes on a message, word-granular.
Includes(message, word) == \E k \in DOMAIN message : message[k] = word

\* error?.message || ''
ErrorText(error) == IF error.kind = "error" THEN error.message ELSE <<>>

\* error?.status
ErrorStatus(error) == IF error.kind = "error" THEN error.status ELSE 0

\* geminiService.ts:22
IsRateLimit(error) ==
    \/ Includes(ErrorText(error), "429")
    \/ Includes(ErrorText(error), "quota")
    \/ ErrorStatus(error) = 429

RECURSIVE Pow2(_)
Pow2(n) == IF n = 0 THEN 1 ELSE 2 * Pow2(n - 1)

\* Constant delay instead of exponential backoff.
WaitTimeConstant(i, jitter) == BaseDelay + jitter

\* geminiService.ts:26
WaitTime(i, jitter) == Pow2(i) * BaseDelay + jitter

\* ------------------------------------------------------------- withRetry
\* The state of one withRetry invocation. pc is the await the invocation is
\* suspended at ("fn": awaiting fn(); "sleep": awaiting the backoff timer)
\* or how it settled ("returned", "thrown").
RetryIdle == [pc |-> "idle", max |-> 0, i |-> 0, attempts |-> 0, delays |-> <<>>,
              lastError |-> Undefined, result |-> Undefined, error |-> Undefined]

\* Loop head (line 16): call fn() when i < maxRetries, else line 34.
LoopHead(r) ==
    IF r.i < r.max
    THEN [r EXCEPT !.pc = "fn", !.attempts = @ + 1]
    ELSE [r EXCEPT !.pc = "thrown", !.error = r.lastError]

RetryStart(maxRetries) == LoopHead([RetryIdle EXCEPT !.max = maxRetries])

\* fn() resolved with value v (line 18).
RetryResolve(r, v) == [r EXCEPT !.pc = "returned", !.result = v]

\* Retries every error, rate-limit or not.
RetryRejectAnyError(r, e, jitter) ==
    IF r.i < r.max - 1
    THEN [r EXCEPT !.pc = "sleep", !.lastError = e,
                   !.delays = Append(@, WaitTime(r.i, jitter))]
    ELSE [r EXCEPT !.pc = "thrown", !.lastError = e, !.error = e]

\* Off by one: backs off after the last attempt as well.
RetryRejectOffByOne(r, e, jitter) ==
    IF IsRateLimit(e) /\ r.i < r.max
    THEN [r EXCEPT !.pc = "sleep", !.lastError = e,
                   !.delays = Append(@, WaitTime(r.i, jitter))]
    ELSE [r EXCEPT !.pc = "thrown", !.lastError = e, !.error = e]

\* fn() rejected with error e (lines 19-31).
RetryReject(r, e, jitter) ==
    IF IsRateLimit(e) /\ r.i < r.max - 1
    THEN [r EXCEPT !.pc = "sleep", !.lastError = e,
                   !.delays = Append(@, WaitTime(r.i, jitter))]
    ELSE [r EXCEPT !.pc = "thrown", !.lastError = e, !.error = e]

\* The backoff timer fired (lines 28-29, then the loop's i++).
RetryWake(r) == LoopHead([r EXCEPT !.i = @ + 1])

Jitters == {0, 500, JitterBound - 1}

\* ------------------------------------------------------- response parsing
\* A response text is a sequence of tokens: brackets, commas, free-text
\* words, and object literals. An object-literal token stands for the JSON
\* text of one object; ObjectOf gives the value JSON.parse yields for it.
MaxTextLen == 5             \* longest discovery response text explored

NoCandidate == [businessName |-> "", industry |-> "", city |-> "",
                website |-> "", phoneNumber |-> ""]

\* Objects a discovery response can list (fields optional / best-effort;
\* "" is an absent field).
ObjectOf(tok) ==
    CASE tok = "A" -> [NoCandidate EXCEPT !.businessName = "Acme Co", !.industry = "Cafes",
                                          !.city = "Berlin", !.website = "acme.example",
                                          !.phoneNumber = "555-0100"]
      [] tok = "a" -> [NoCandidate EXCEPT !.businessName = "acme co", !.industry = "Cafes",
                                          !.city = "Berlin"]
      [] tok = "B" -> [NoCandidate EXCEPT !.businessName = "Bolt", !.city = "Pune"]
      [] tok = "C" -> [NoCandidate EXCEPT !.businessName = "Cedar", !.industry = "Gyms"]
      [] OTHER     -> NoCandidate

ObjectTokens == {"A", "a", "B", "C"}

ParseFail == [ok |-> FALSE, value |-> <<>>, rest |-> <<>>]

\* Recursive-descent JSON value parser over tokens: a value is an object
\* literal or an array  "[" "]"  |  "[" value ("," value)* "]".
RECURSIVE ParseValue(_), ParseElements(_, _)
ParseValue(s) ==
    IF s = <<>> THEN ParseFail
    ELSE IF Head(s) \in ObjectTokens
         THEN [ok |-> TRUE, value |-> ObjectOf(Head(s)), rest |-> Tail(s)]
    ELSE IF Head(s) = "["
         THEN IF Tail(s) # <<>> /\ Head(Tail(s)) = "]"
              THEN [ok |-> TRUE, value |-> <<>>, rest |-> Tail(Tail(s))]
              ELSE ParseElements(Tail(s), <<>>)
    ELSE ParseFail

\* After "[" or ",": one value, then "," (more elements) or "]" (end).
ParseElements(s, acc) ==
    LET v == ParseValue(s) IN
    IF ~v.ok \/ v.rest = <<>> THEN ParseFail
    ELSE IF Head(v.rest) = "]"
         THEN [ok |-> TRUE, value |-> Append(acc, v.value), rest |-> Tail(v.rest)]
    ELSE IF Head(v.rest) = ","
         THEN ParseElements(Tail(v.rest), Append(acc, v.value))
    ELSE ParseFail

\* JSON.parse(text): the whole text must be one value.
JSONParse(text) ==
    LET v == ParseValue(text) IN
    IF v.ok /\ v.rest = <<>> THEN [ok |-> TRUE, value |-> v.value]
    ELSE [ok |-> FALSE, value |-> <<>>]

Positions(text, tok) == {k \in DOMAIN text : text[k] = tok}

Min(S) == CHOOSE x \in S : \A y \in S : x <= y
Max(S) == CHOOSE x \in S : \A y \in S : x >= y

\* text.match(/\[[\s\S]*\]/): from the first "[" to the last "]" after it
\* (the star is greedy). found = FALSE when match returns null.
ArrayMatch(text) ==
    LET opens == Positions(text, "[") IN
    IF opens = {} THEN [found |-> FALSE, match |-> <<>>]
    ELSE LET first  == Min(opens)
             closes == {k \in Positions(text, "]") : k > first}
         IN IF closes = {} THEN [found |-> FALSE, match |-> <<>>]
            ELSE [found |-> TRUE, match |-> SubSeq(text, first, Max(closes))]

\* A generateContent response; hasText = FALSE when it carries no text.
Response(t) == [kind |-> "response", hasText |-> TRUE, text |-> t]
NoTextResponse == [kind |-> "response", hasText |-> FALSE, text |-> <<>>]

\* response.text || ''
TextOrEmpty(response) == IF response.hasText THEN response.text ELSE <<>>

\* A settled promise; value and error hold zero or one element.
Resolved(v) == [settled |-> "resolved", value |-> <<v>>, error |-> <<>>]
Rejected(e) == [settled |-> "rejected", value |-> <<>>, error |-> <<e>>]

\* Treats a response without an array as a failure.
DiscoverFnNoMatchThrows(outcome) ==
    IF outcome.kind = "error" THEN Rejected(outcome)
    ELSE LET jsonMatch == ArrayMatch(TextOrEmpty(outcome)) IN
         IF jsonMatch.found
         THEN LET parsed == JSONParse(jsonMatch.match) IN
              IF parsed.ok THEN Resolved(parsed.value) ELSE Rejected(ErrSyntax)
         ELSE Rejected(ErrSyntax)

\* The operation discoverLeads hands to withRetry, from the point where
\* generateContent settled with `outcome` (an error or a response).
DiscoverFn(outcome) ==
    IF outcome.kind = "error" THEN Rejected(outcome)
    ELSE LET jsonMatch == ArrayMatch(TextOrEmpty(outcome)) IN
         IF jsonMatch.found
         THEN LET parsed == JSONParse(jsonMatch.match) IN
              IF parsed.ok THEN Resolved(parsed.value) ELSE Rejected(ErrSyntax)
         ELSE Resolved(<<>>)

\* withRetry after the operation settled.
RetrySettle(r, settlement, jitter) ==
    IF settlement.settled = "resolved"
    THEN RetryResolve(r, settlement.value[1])
    ELSE RetryReject(r, settlement.error[1], jitter)

\* ------------------------------------------------------- qualifyLead parsing
Truthy(s) == s # ""

\* a || b on strings
OrElse(a, b) == IF Truthy(a) THEN a ELSE b

\* The members of a qualification object that the handlers read; "" is an
\* absent member.
NoQualification == [score |-> "", reason |-> ""]

ObjectKeys == {"score", "reason"}
ObjectScalars == {"High", "Medium", "Low", "Critical", "r1"}

ObjectFail == [ok |-> FALSE, value |-> NoQualification]

\* key ":" value ("," key ":" value)* "}"
RECURSIVE ParseMembers(_, _)
ParseMembers(s, obj) ==
    IF Len(s) < 4 THEN ObjectFail
    ELSE IF s[1] \notin ObjectKeys \/ s[2] # ":" \/ s[3] \notin ObjectScalars THEN ObjectFail
    ELSE LET o == IF s[1] = "score" THEN [obj EXCEPT !.score = s[3]]
                  ELSE [obj EXCEPT !.reason = s[3]]
         IN IF s[4] = "}" THEN (IF Len(s) = 4 THEN [ok |-> TRUE, value |-> o] ELSE ObjectFail)
            ELSE IF s[4] = "," THEN ParseMembers(SubSeq(s, 5, Len(s)), o)
            ELSE ObjectFail

\* JSON.parse(text) for a text that is to be one object.
JSONParseObject(text) ==
    IF text = <<>> \/ Head(text) # "{" THEN ObjectFail
    ELSE IF text = <<"{", "}">> THEN [ok |-> TRUE, value |-> NoQualification]
    ELSE ParseMembers(Tail(text), NoQualification)

\* The operation qualifyLead hands to withRetry, from the point where
\* generateContent settled with `outcome`.
QualifyFn(outcome) ==
    IF outcome.kind = "error" THEN Rejected(outcome)
    ELSE IF ~outcome.hasText \/ outcome.text = <<>> THEN Rejected(ErrEmptyQualification)
    ELSE LET parsed == JSONParseObject(outcome.text) IN
         IF parsed.ok THEN Resolved(parsed.value) ELSE Rejected(ErrSyntax)

\* Every way a withRetry invocation in state r can settle when each attempt
\* of its operation settles as one of fnSettlements.
RECURSIVE RetryRuns(_, _)
RetryRuns(r, fnSettlements) ==
    IF r.pc = "returned" THEN {Resolved(r.result)}
    ELSE IF r.pc = "thrown" THEN {Rejected(r.error)}
    ELSE IF r.pc = "sleep" THEN RetryRuns(RetryWake(r), fnSettlements)
    ELSE UNION {RetryRuns(RetrySettle(r, s, 0), fnSettlements) : s \in fnSettlements}

WithRetry(fnSettlements) == RetryRuns(RetryStart(DefaultMaxRetries), fnSettlements)

\* Response texts the generation API is taken to give to a discovery request.
DiscoveryTexts == {
    <<"[", "A", ",", "B", ",", "C", "]">>,
    <<"x", "[", "a", ",", "A", "]", "x">>,
    <<"[", "A", "]", "x", "]">>,
    <<"x">> }

\* Response texts the generation API is taken to give to a qualification
\* request.
QualifyTexts == {
    <<"{", "score", ":", "High", ",", "reason", ":", "r1", "}">>,
    <<"{", "score", ":", "Critical", ",", "reason", ":", "r1", "}">>,
    <<"x">>,
    <<>> }

DiscoverLeadsSettlements ==
    WithRetry({DiscoverFn(o) : o \in ApiErrors \cup {Response(t) : t \in DiscoveryTexts}})

QualifyLeadSettlements ==
    WithRetry({QualifyFn(o) : o \in ApiErrors \cup {Response(t) : t \in QualifyTexts}
                                   \cup {NoTextResponse}})

\* ---- generateEmail (geminiService.ts:121-165) ----
\* The members of an email draft; "" is an absent member.
NoEmail == [subject |-> "", body |-> ""]

EmailScalars == {"s1", "b1"}

\* JSON.parse(text) for a text that is to be one email object.
JSONParseEmail(text) ==
    IF text = <<"{", "}">> THEN [ok |-> TRUE, value |-> NoEmail]
    ELSE IF /\ Len(text) = 9
            /\ text[1] = "{" /\ text[2] = "subject" /\ text[3] = ":"
            /\ text[4] \in EmailScalars /\ text[5] = ","
            /\ text[6] = "body" /\ text[7] = ":"
            /\ text[8] \in EmailScalars /\ text[9] = "}"
         THEN [ok |-> TRUE, value |-> [subject |-> text[4], body |-> text[8]]]
         ELSE [ok |-> FALSE, value |-> NoEmail]

\* The operation generateEmail hands to withRetry, from the point where
\* generateContent settled with `outcome`.
GenerateFn(outcome) ==
    IF outcome.kind = "error" THEN Rejected(outcome)
    ELSE IF ~outcome.hasText \/ outcome.text = <<>> THEN Rejected(ErrEmptyEmail)
    ELSE LET parsed == JSONParseEmail(outcome.text) IN
         IF parsed.ok THEN Resolved(parsed.value) ELSE Rejected(ErrSyntax)

\* Response texts the generation API is taken to give to an email request,
\* and the errors it is taken to fail with.
EmailTexts == {
    <<"{", "subject", ":", "s1", ",", "body", ":", "b1", "}">>,
    <<"x">> }

EmailApiErrors == {ErrStatus429, ErrNetwork}

GenerateEmailSettlements ==
    WithRetry({GenerateFn(o) : o \in EmailApiErrors \cup {Response(t) : t \in EmailTexts}
                                    \cup {NoTextResponse}})

SettlementsOf(call) ==
    IF call = "discoverLeads" THEN DiscoverLeadsSettlements
    ELSE IF call = "qualifyLead" THEN QualifyLeadSettlements
    ELSE GenerateEmailSettlements

VARIABLES
    rt,               \* one withRetry invocation (service-level specifications)
    hist,             \* what each attempt of its operation did
    view,             \* App: the view shown
    leads,            \* App: the lead store
    nextId,           \* source of fresh identifiers (crypto.randomUUID)
    notified,         \* the notify() calls made by the last step
    params,           \* LeadDiscovery: industry / city inputs
    isSearching,      \* LeadDiscovery
    discoveredLeads,  \* LeadDiscovery: pending candidates
    isQualifying,     \* LeadDiscovery: "" stands for null
    selectedIndices,  \* LeadDiscovery: a Set, kept in insertion order
    isBulkAdding,     \* LeadDiscovery
    foundBy,          \* the search parameters that produced discoveredLeads
    stats,            \* App: campaign counters
    outreachLeads,    \* App: the outreach batch
    selectedIds,      \* LeadList: ticked leads
    emails,           \* Outreach: the leads that have a draft
    loading,          \* Outreach: the leads whose draft is being generated
    sentStatus,       \* Outreach: the leads marked sent
    tasks,            \* async handler invocations that have not finished
    inflight,         \* service calls that have not settled
    interactions,     \* user interactions so far
    lastBulk          \* the bulk-add that finished last: what it was given and did

serviceVars == <<rt, hist>>
appVars == <<view, leads, nextId, notified>>
discoveryVars == <<params, isSearching, discoveredLeads, isQualifying,
                   selectedIndices, isBulkAdding, foundBy>>
campaignVars == <<stats, outreachLeads>>
outreachVars == <<emails, loading, sentStatus>>
uiVars == <<appVars, discoveryVars, campaignVars, selectedIds, outreachVars,
            tasks, inflight, interactions, lastBulk>>
vars == <<serviceVars, uiVars>>

\* =============================================================== the views
MaxLeads == 2               \* leads created in one run of the model
MaxTasks == 2               \* handler invocations pending at one time
MaxInteractions == 7        \* user interactions in one run of the model

Views == {"DASHBOARD", "INBOX", "FINDER", "LEADS"}

Industries == {"", "Cafes"}
Cities == {"", "Berlin"}

NoParams == [industry |-> "", city |-> ""]

\* String.prototype.toLowerCase on the business names in use.
ToLowerCase(s) ==
    CASE s = "Acme Co" -> "acme co"
      [] s = "Bolt"    -> "bolt"
      [] s = "Cedar"   -> "cedar"
      [] OTHER         -> s

\* A lead saved by an earlier session (localStorage key gp_leads).
StoredLead ==
    [id |-> 0, businessName |-> "acme co", industry |-> "Cafes", city |-> "Berlin",
     website |-> "Not listed", phoneNumber |-> "Not listed",
     priorityScore |-> "High", priorityReason |-> "r1", status |-> "New"]

\* A saved lead whose status was set outside this program (types.ts:12).
RepliedLead ==
    [id |-> -1, businessName |-> "Delta", industry |-> "Gyms", city |-> "Pune",
     website |-> "Not listed", phoneNumber |-> "Not listed",
     priorityScore |-> "Low", priorityReason |-> "r1", status |-> "Responded"]

InitialStores == {<<>>, <<StoredLead>>, <<StoredLead, RepliedLead>>}

\* part_000:11-17
initialStats == [sent |-> 0, opened |-> 0, replied |-> 0, clicks |-> 0, dailyLimitUsed |-> 0]

DailyCap == 100

\* The counters saved with a store (localStorage key gp_stats): none with
\* the small stores, one email short of the cap with the store of two.
SavedStats(store) ==
    IF Len(store) < 2 THEN initialStats
    ELSE [initialStats EXCEPT !.sent = DailyCap - 1, !.dailyLimitUsed = DailyCap - 1]

\* Gives every lead the same identifier.
MakeLeadFixedId(rawLead, searchParams, qualification, id) ==
    [id |-> 0,
     businessName |-> OrElse(rawLead.businessName, "Unknown"),
     industry |-> OrElse(rawLead.industry, searchParams.industry),
     city |-> OrElse(rawLead.city, searchParams.city),
     website |-> OrElse(rawLead.website, "Not listed"),
     phoneNumber |-> OrElse(rawLead.phoneNumber, "Not listed"),
     priorityScore |-> qualification.score,
     priorityReason |-> qualification.reason,
     status |-> "New"]

\* Copies website and phone number as the candidate has them.
MakeLeadNoDefaults(rawLead, searchParams, qualification, id) ==
    [id |-> id,
     businessName |-> OrElse(rawLead.businessName, "Unknown"),
     industry |-> OrElse(rawLead.industry, searchParams.industry),
     city |-> OrElse(rawLead.city, searchParams.city),
     website |-> rawLead.website,
     phoneNumber |-> rawLead.phoneNumber,
     priorityScore |-> qualification.score,
     priorityReason |-> qualification.reason,
     status |-> "New"]

\* LeadDiscovery.tsx:119-131 and 161-173
MakeLead(rawLead, searchParams, qualification, id) ==
    [id |-> id,
     businessName |-> OrElse(rawLead.businessName, "Unknown"),
     industry |-> OrElse(rawLead.industry, searchParams.industry),
     city |-> OrElse(rawLead.city, searchParams.city),
     website |-> OrElse(rawLead.website, "Not listed"),
     phoneNumber |-> OrElse(rawLead.phoneNumber, "Not listed"),
     priorityScore |-> qualification.score,
     priorityReason |-> qualification.reason,
     status |-> "New"]

Notice(message, type) == [message |-> message, type |-> type]

\* error?.message?.includes('429') || error?.message?.includes('quota')
IsQuota(error) ==
    Includes(ErrorText(error), "429") \/ Includes(ErrorText(error), "quota")

\* LeadDiscovery.tsx:105
SearchFailureNotice(error) ==
    Notice(IF IsQuota(error) THEN "Daily search quota exceeded. Try again in a few minutes."
           ELSE "Failed to discover leads.", "error")

\* LeadDiscovery.tsx:138
AddFailureNotice(error) ==
    Notice(IF IsQuota(error) THEN "Qualification quota hit. Retrying..."
           ELSE "Failed to qualify lead", "error")

\* part_000:71
AddedNotice(n) == Notice(ToString(n) \o " leads added to database!", "success")

\* LeadDiscovery.tsx:87-90, against a given store
IsDuplicate(existingLeads, leadName) ==
    /\ Truthy(leadName)
    /\ \E k \in DOMAIN existingLeads :
          ToLowerCase(existingLeads[k].businessName) = ToLowerCase(leadName)

\* ---- Sets of indices in insertion order (a JavaScript Set) ----
Has(set, x) == \E k \in DOMAIN set : set[k] = x

Delete(set, x) == LET Keep(y) == y # x IN SelectSeq(set, Keep)

Elements(set) == {set[k] : k \in DOMAIN set}

RECURSIVE Ascending(_)
Ascending(S) == IF S = {} THEN <<>> ELSE <<Min(S)>> \o Ascending(S \ {Min(S)})

\* Iterates the selection in ascending index order.
ArrayFromSorted(set) == Ascending(Elements(set))

\* Array.from(set): the elements in insertion order.
ArrayFrom(set) == set

\* prev.filter((_, i) => !dropped.has(i)), indices from 0
FilterOut(list, dropped) ==
    LET Keep(i) == i \notin dropped
        kept == SelectSeq([k \in 1..Len(list) |-> k - 1], Keep)
    IN [k \in 1..Len(kept) |-> list[kept[k] + 1]]

\* ---- pending handler invocations ----
NoTask ==
    [kind |-> "none", live |-> FALSE, pc |-> "idle",
     list |-> <<>>, sel |-> <<>>, indices |-> <<>>, cparams |-> NoParams,
     index |-> 0, pos |-> 0, validLeads |-> <<>>, issued |-> <<>>, qualified |-> <<>>,
     found |-> NoParams, settlement |-> <<>>]

TaskIds == 1..MaxTasks

NoBulk == [finished |-> FALSE, list |-> <<>>, sel |-> <<>>, issued |-> <<>>,
           qualified |-> <<>>, batch |-> <<>>]

\* The record of a bulk-add whose loop has ended.
BulkRecord(task) ==
    [finished |-> TRUE, list |-> task.list, sel |-> task.sel, issued |-> task.issued,
     qualified |-> task.qualified, batch |-> task.validLeads]

FreeSlots == {t \in TaskIds : tasks[t].kind = "none"}
FreeSlot == Min(FreeSlots)

\* A promise continuation is queued: it runs before any event or timer.
ContinuationPending == \E t \in TaskIds : tasks[t].pc = "resume"

\* The component is unmounted: its state is dropped, and the state updates
\* of its pending handlers no longer reach any component.
Orphaned(ts) == [t \in TaskIds |-> [ts[t] EXCEPT !.live = FALSE]]

Unmounted ==
    /\ params' = NoParams
    /\ isSearching' = FALSE
    /\ discoveredLeads' = <<>>
    /\ isQualifying' = ""
    /\ selectedIndices' = <<>>
    /\ isBulkAdding' = FALSE
    /\ foundBy' = NoParams

\* The state of Outreach outlives the view.
OutreachStateKept ==
    /\ emails' = emails
    /\ loading' = loading
    /\ sentStatus' = sentStatus

\* Outreach is not rendered after the step (part_000:217): its state is
\* dropped.
OutreachUnmounted ==
    /\ emails' = {}
    /\ loading' = {}
    /\ sentStatus' = {}

UIInit ==
    /\ view = "DASHBOARD"
    /\ leads \in InitialStores
    /\ stats = SavedStats(leads)
    /\ outreachLeads = <<>>
    /\ selectedIds = {}
    /\ emails = {}
    /\ loading = {}
    /\ sentStatus = {}
    /\ foundBy = NoParams
    /\ nextId = 1
    /\ notified = <<>>
    /\ params = NoParams
    /\ isSearching = FALSE
    /\ discoveredLeads = <<>>
    /\ isQualifying = ""
    /\ selectedIndices = <<>>
    /\ isBulkAdding = FALSE
    /\ tasks = [t \in TaskIds |-> NoTask]
    /\ inflight = {}
    /\ interactions = 0
    /\ lastBulk = NoBulk

\* The user clicks or types: possible when no continuation is queued and
\* the run has interactions left.
UserActs ==
    /\ ~ContinuationPending
    /\ interactions < MaxInteractions
    /\ interactions' = interactions + 1

\* ---- App ----
\* NavItem onClick (part_000:137-162)
Navigate(v) ==
    /\ UserActs
    /\ v # view
    /\ view' = v
    /\ notified' = <<>>
    /\ Unmounted
    /\ selectedIds' = {}
    /\ OutreachUnmounted
    /\ tasks' = Orphaned(tasks)
    /\ UNCHANGED <<leads, nextId, inflight, serviceVars, campaignVars>>
    /\ UNCHANGED lastBulk

\* ---- LeadDiscovery: inputs and selection ----
SetIndustry(v) ==
    /\ UserActs
    /\ view = "FINDER"
    /\ v # params.industry
    /\ params' = [params EXCEPT !.industry = v]
    /\ notified' = <<>>
    /\ UNCHANGED <<view, leads, nextId, isSearching, discoveredLeads, isQualifying,
                   selectedIndices, isBulkAdding, tasks, inflight, serviceVars>>
    /\ UNCHANGED <<foundBy, campaignVars, selectedIds, outreachVars, lastBulk>>

SetCity(v) ==
    /\ UserActs
    /\ view = "FINDER"
    /\ v # params.city
    /\ params' = [params EXCEPT !.city = v]
    /\ notified' = <<>>
    /\ UNCHANGED <<view, leads, nextId, isSearching, discoveredLeads, isQualifying,
                   selectedIndices, isBulkAdding, tasks, inflight, serviceVars>>
    /\ UNCHANGED <<foundBy, campaignVars, selectedIds, outreachVars, lastBulk>>

\* Region buttons (LeadDiscovery.tsx:225, 234)
SetRegion ==
    /\ UserActs
    /\ view = "FINDER"
    /\ params # NoParams
    /\ params' = NoParams
    /\ notified' = <<>>
    /\ UNCHANGED <<view, leads, nextId, isSearching, discoveredLeads, isQualifying,
                   selectedIndices, isBulkAdding, tasks, inflight, serviceVars>>
    /\ UNCHANGED <<foundBy, campaignVars, selectedIds, outreachVars, lastBulk>>

toggleSelection(index) ==
    /\ UserActs
    /\ view = "FINDER"
    /\ index \in 0..(Len(discoveredLeads) - 1)
    /\ ~IsDuplicate(leads, discoveredLeads[index + 1].businessName)
    /\ selectedIndices' = IF Has(selectedIndices, index)
                          THEN Delete(selectedIndices, index)
                          ELSE Append(selectedIndices, index)
    /\ notified' = <<>>
    /\ UNCHANGED <<view, leads, nextId, params, isSearching, discoveredLeads, isQualifying,
                   isBulkAdding, tasks, inflight, serviceVars>>
    /\ UNCHANGED <<foundBy, campaignVars, selectedIds, outreachVars, lastBulk>>

AvailableIndices ==
    LET Dup(i) == IsDuplicate(leads, discoveredLeads[i + 1].businessName)
        Indexes == [k \in 1..Len(discoveredLeads) |-> k - 1]
        Keep(i) == ~Dup(i)
    IN SelectSeq(Indexes, Keep)

toggleSelectAll ==
    /\ UserActs
    /\ view = "FINDER"
    /\ Len(discoveredLeads) > 0
    /\ selectedIndices' = IF Len(selectedIndices) = Len(AvailableIndices)
                          THEN <<>> ELSE AvailableIndices
    /\ selectedIndices' # selectedIndices
    /\ notified' = <<>>
    /\ UNCHANGED <<view, leads, nextId, params, isSearching, discoveredLeads, isQualifying,
                   isBulkAdding, tasks, inflight, serviceVars>>
    /\ UNCHANGED <<foundBy, campaignVars, selectedIds, outreachVars, lastBulk>>

\* ---- service calls ----
Request(t, call, idx) == [task |-> t, call |-> call, idx |-> idx]

\* A pending service call settles; the continuation of the handler that
\* awaits it is queued.
Settle(q) ==
    /\ ~ContinuationPending
    /\ q \in inflight
    /\ tasks[q.task].pc = "await"
    /\ \E s \in SettlementsOf(q.call) :
          /\ (q.call = "qualifyLead" /\ s.settled = "resolved") => nextId <= MaxLeads
          /\ tasks' = [tasks EXCEPT ![q.task].pc = "resume", ![q.task].settlement = <<s>>]
    /\ inflight' = inflight \ {q}
    /\ notified' = <<>>
    /\ UNCHANGED <<view, leads, nextId, discoveryVars, serviceVars>>
    /\ UNCHANGED <<campaignVars, selectedIds, outreachVars>>
    /\ UNCHANGED interactions
    /\ UNCHANGED lastBulk

\* handleAddLeads (part_000:69-73)
handleAddLeads(newLeads) ==
    /\ leads' = leads \o newLeads
    /\ notified' = <<AddedNotice(Len(newLeads))>>
    /\ view' = "LEADS"

\* What the component holds after the re-render that follows a step: the
\* updated value while LeadDiscovery stays mounted, nothing once the view
\* has left FINDER.
Rendered(nextView, updated, initial) == IF nextView = "FINDER" THEN updated ELSE initial

\* The state update is lost.
SetStateLost(live, current, updated) == current

\* A state update by a handler reaches the component only while the
\* component that created the handler is mounted.
SetState(live, current, updated) == IF live THEN updated ELSE current

\* ---- handleSearch (LeadDiscovery.tsx:92-109) ----
handleSearch ==
    /\ UserActs
    /\ view = "FINDER"
    /\ ~isSearching
    /\ Truthy(params.industry) /\ Truthy(params.city)
    /\ FreeSlots # {}
    /\ isSearching' = TRUE
    /\ discoveredLeads' = <<>>
    /\ selectedIndices' = <<>>
    /\ tasks' = [tasks EXCEPT ![FreeSlot] =
                    [NoTask EXCEPT !.kind = "search", !.live = TRUE, !.pc = "await",
                                   !.cparams = params]]
    /\ inflight' = inflight \cup {Request(FreeSlot, "discoverLeads", 0)}
    /\ notified' = <<>>
    /\ foundBy' = NoParams
    /\ UNCHANGED <<view, leads, nextId, params, isQualifying, isBulkAdding, serviceVars>>
    /\ UNCHANGED <<campaignVars, selectedIds, outreachVars, lastBulk>>

handleSearchResumes(t) ==
    /\ tasks[t].kind = "search"
    /\ tasks[t].pc = "resume"
    /\ LET s == tasks[t].settlement[1]
           live == tasks[t].live
       IN /\ IF s.settled = "resolved"
             THEN /\ discoveredLeads' = SetState(live, discoveredLeads, s.value[1])
                  /\ foundBy' = SetState(live, foundBy, tasks[t].cparams)
                  /\ notified' = <<>>
             ELSE /\ UNCHANGED <<discoveredLeads, foundBy>>
                  /\ notified' = <<SearchFailureNotice(s.error[1])>>
          /\ isSearching' = SetState(live, isSearching, FALSE)
    /\ tasks' = [tasks EXCEPT ![t] = NoTask]
    /\ UNCHANGED <<view, leads, nextId, params, isQualifying, selectedIndices,
                   isBulkAdding, inflight, serviceVars>>
    /\ UNCHANGED <<campaignVars, selectedIds, outreachVars>>
    /\ UNCHANGED interactions
    /\ UNCHANGED lastBulk

\* ---- handleAddLead (LeadDiscovery.tsx:111-142) ----
handleAddLead(index) ==
    /\ UserActs
    /\ view = "FINDER"
    /\ index \in 0..(Len(discoveredLeads) - 1)
    /\ ~Truthy(isQualifying) /\ ~isBulkAdding
    /\ ~IsDuplicate(leads, discoveredLeads[index + 1].businessName)
    /\ FreeSlots # {}
    /\ isQualifying' = OrElse(discoveredLeads[index + 1].businessName, "Lead")
    /\ tasks' = [tasks EXCEPT ![FreeSlot] =
                    [NoTask EXCEPT !.kind = "add", !.live = TRUE, !.pc = "await",
                                   !.list = discoveredLeads, !.cparams = params,
                                   !.index = index, !.found = foundBy]]
    /\ inflight' = inflight \cup {Request(FreeSlot, "qualifyLead", index)}
    /\ notified' = <<>>
    /\ UNCHANGED <<view, leads, nextId, params, isSearching, discoveredLeads,
                   selectedIndices, isBulkAdding, serviceVars>>
    /\ UNCHANGED <<foundBy, campaignVars, selectedIds, outreachVars, lastBulk>>

handleAddLeadResumes(t) ==
    /\ tasks[t].kind = "add"
    /\ tasks[t].pc = "resume"
    /\ LET s == tasks[t].settlement[1]
           live == tasks[t].live
           index == tasks[t].index
           rawLead == tasks[t].list[index + 1]
       IN IF s.settled = "resolved"
          THEN /\ handleAddLeads(<<MakeLead(rawLead, tasks[t].cparams, s.value[1], nextId)>>)
               /\ nextId' = nextId + 1
               /\ discoveredLeads' = Rendered(view', SetState(live, discoveredLeads,
                                         FilterOut(discoveredLeads, {index})), <<>>)
               /\ selectedIndices' = Rendered(view', SetState(live, selectedIndices, <<>>), <<>>)
               /\ isQualifying' = Rendered(view', SetState(live, isQualifying, ""), "")
               /\ params' = Rendered(view', params, NoParams)
               /\ isSearching' = Rendered(view', isSearching, FALSE)
               /\ isBulkAdding' = Rendered(view', isBulkAdding, FALSE)
               /\ foundBy' = Rendered(view', foundBy, NoParams)
               /\ OutreachUnmounted
               /\ tasks' = IF view' # view
                           THEN Orphaned([tasks EXCEPT ![t] = NoTask])
                           ELSE [tasks EXCEPT ![t] = NoTask]
               /\ UNCHANGED <<campaignVars, selectedIds>>
          ELSE /\ notified' = <<AddFailureNotice(s.error[1])>>
               /\ isQualifying' = SetState(live, isQualifying, "")
               /\ tasks' = [tasks EXCEPT ![t] = NoTask]
               /\ UNCHANGED <<view, leads, nextId, params, isSearching, discoveredLeads,
                              selectedIndices, isBulkAdding>>
               /\ UNCHANGED <<foundBy, campaignVars, selectedIds, outreachVars>>
    /\ UNCHANGED <<inflight, serviceVars>>
    /\ UNCHANGED interactions
    /\ UNCHANGED lastBulk

\* ---- handleBulkAdd (LeadDiscovery.tsx:144-190) ----
\* The next loop position after pos whose index has a candidate (line 155).
RECURSIVE NextPos(_, _, _)
NextPos(list, indices, pos) ==
    IF pos + 1 > Len(indices) THEN pos + 1
    ELSE IF indices[pos + 1] < Len(list) THEN pos + 1
    ELSE NextPos(list, indices, pos + 1)

\* Issues the requests of all remaining candidates at once.
QualifyRequestsAllAtOnce(t, indices, pos) ==
    {Request(t, "qualifyLead", indices[k]) : k \in pos..Len(indices)}

\* The qualification requests issued when the loop reaches position pos.
QualifyRequests(t, indices, pos) == {Request(t, "qualifyLead", indices[pos])}

\* The loop of task record task (slot t) moves on from its position: the
\* next candidate's request, or the commit after the loop.
BulkContinues(t, task) ==
    LET np == NextPos(task.list, task.indices, task.pos) IN
    IF np <= Len(task.indices)
    THEN /\ tasks' = [tasks EXCEPT ![t] =
                        [task EXCEPT !.pc = "await", !.pos = np, !.settlement = <<>>,
                                     !.issued = Append(@, task.indices[np])]]
         /\ inflight' = inflight \cup QualifyRequests(t, task.indices, np)
         /\ notified' = <<>>
         /\ UNCHANGED <<view, leads, discoveryVars, lastBulk>>
         /\ UNCHANGED <<campaignVars, selectedIds, outreachVars>>
    ELSE IF task.validLeads # <<>>
    THEN /\ handleAddLeads(task.validLeads)
         /\ discoveredLeads' = Rendered(view', SetState(task.live, discoveredLeads,
                                   FilterOut(discoveredLeads, Elements(task.sel))), <<>>)
         /\ selectedIndices' = Rendered(view', SetState(task.live, selectedIndices, <<>>), <<>>)
         /\ isBulkAdding' = Rendered(view', SetState(task.live, isBulkAdding, FALSE), FALSE)
         /\ params' = Rendered(view', params, NoParams)
         /\ isSearching' = Rendered(view', isSearching, FALSE)
         /\ isQualifying' = Rendered(view', isQualifying, "")
         /\ foundBy' = Rendered(view', foundBy, NoParams)
         /\ OutreachUnmounted
         /\ tasks' = IF view' # view
                     THEN Orphaned([tasks EXCEPT ![t] = NoTask])
                     ELSE [tasks EXCEPT ![t] = NoTask]
         /\ lastBulk' = BulkRecord(task)
         /\ UNCHANGED <<inflight, campaignVars, selectedIds>>
    ELSE /\ isBulkAdding' = SetState(task.live, isBulkAdding, FALSE)
         /\ tasks' = [tasks EXCEPT ![t] = NoTask]
         /\ lastBulk' = BulkRecord(task)
         /\ notified' = <<>>
         /\ UNCHANGED <<view, leads, params, isSearching, discoveredLeads, isQualifying,
                        selectedIndices, inflight>>
         /\ UNCHANGED <<foundBy, campaignVars, selectedIds, outreachVars>>

handleBulkAdd ==
    /\ UserActs
    /\ view = "FINDER"
    /\ Len(selectedIndices) # 0
    /\ ~isBulkAdding
    /\ FreeSlots # {}
    /\ NextPos(discoveredLeads, ArrayFrom(selectedIndices), 0) <= Len(selectedIndices)
    /\ isBulkAdding' = TRUE
    /\ LET t == FreeSlot
           task == [NoTask EXCEPT !.kind = "bulk", !.live = TRUE,
                                  !.list = discoveredLeads, !.sel = selectedIndices,
                                  !.indices = ArrayFrom(selectedIndices),
                                  !.cparams = params, !.found = foundBy]
           np == NextPos(task.list, task.indices, 0)
       IN /\ tasks' = [tasks EXCEPT ![t] =
                         [task EXCEPT !.pc = "await", !.pos = np,
                                      !.issued = <<task.indices[np]>>]]
          /\ inflight' = inflight \cup QualifyRequests(t, task.indices, np)
    /\ notified' = <<>>
    /\ UNCHANGED <<view, leads, nextId, params, isSearching, discoveredLeads, isQualifying,
                   selectedIndices, serviceVars>>
    /\ UNCHANGED <<foundBy, campaignVars, selectedIds, outreachVars, lastBulk>>

\* Goes on to the next candidate at once after a qualified one.
handleBulkAddResumesWithoutPause(t) ==
    /\ tasks[t].kind = "bulk"
    /\ tasks[t].pc = "resume"
    /\ LET s == tasks[t].settlement[1]
           rawLead == tasks[t].list[tasks[t].indices[tasks[t].pos] + 1]
       IN IF s.settled = "resolved"
          THEN /\ BulkContinues(t, [tasks[t] EXCEPT
                      !.validLeads = Append(@, MakeLead(rawLead, tasks[t].cparams,
                                                        s.value[1], nextId)),
                      !.qualified = Append(@, tasks[t].indices[tasks[t].pos])])
               /\ nextId' = nextId + 1
          ELSE /\ BulkContinues(t, tasks[t])
               /\ UNCHANGED nextId
    /\ UNCHANGED serviceVars
    /\ UNCHANGED interactions

\* A failed qualification ends the loop instead of being skipped.
handleBulkAddResumesAborting(t) ==
    /\ tasks[t].kind = "bulk"
    /\ tasks[t].pc = "resume"
    /\ LET s == tasks[t].settlement[1]
           rawLead == tasks[t].list[tasks[t].indices[tasks[t].pos] + 1]
       IN IF s.settled = "resolved"
          THEN /\ tasks' = [tasks EXCEPT ![t].pc = "pause", ![t].settlement = <<>>,
                               ![t].validLeads = Append(@,
                                   MakeLead(rawLead, tasks[t].cparams, s.value[1], nextId)),
                               ![t].qualified = Append(@, tasks[t].indices[tasks[t].pos])]
               /\ nextId' = nextId + 1
               /\ notified' = <<>>
               /\ UNCHANGED <<view, leads, discoveryVars, inflight, lastBulk>>
               /\ UNCHANGED <<campaignVars, selectedIds, outreachVars>>
          ELSE /\ BulkContinues(t, [tasks[t] EXCEPT !.pos = Len(tasks[t].indices)])
               /\ UNCHANGED nextId
    /\ UNCHANGED serviceVars
    /\ UNCHANGED interactions

handleBulkAddResumes(t) ==
    /\ tasks[t].kind = "bulk"
    /\ tasks[t].pc = "resume"
    /\ LET s == tasks[t].settlement[1]
           rawLead == tasks[t].list[tasks[t].indices[tasks[t].pos] + 1]
       IN IF s.settled = "resolved"
          THEN /\ tasks' = [tasks EXCEPT ![t].pc = "pause", ![t].settlement = <<>>,
                               ![t].validLeads = Append(@,
                                   MakeLead(rawLead, tasks[t].cparams, s.value[1], nextId)),
                               ![t].qualified = Append(@, tasks[t].indices[tasks[t].pos])]
               /\ nextId' = nextId + 1
               /\ notified' = <<>>
               /\ UNCHANGED <<view, leads, discoveryVars, inflight, lastBulk>>
               /\ UNCHANGED <<campaignVars, selectedIds, outreachVars>>
          ELSE /\ BulkContinues(t, tasks[t])
               /\ UNCHANGED nextId
    /\ UNCHANGED serviceVars
    /\ UNCHANGED interactions

\* The 200 ms pause after a qualified candidate is over (line 176).
PauseElapses(t) ==
    /\ ~ContinuationPending
    /\ tasks[t].kind = "bulk"
    /\ tasks[t].pc = "pause"
    /\ BulkContinues(t, tasks[t])
    /\ UNCHANGED <<nextId, serviceVars>>
    /\ UNCHANGED interactions

\* ---- App: store and campaign handlers ----
RemovedNotice == Notice("Lead removed", "info")

SentNotice == Notice("Campaign marked as sent successfully!", "success")

StoreIds == {leads[k].id : k \in DOMAIN leads}

\* handleRemoveLead (part_000:75-78)
handleRemoveLead(id) ==
    /\ leads' = LET Keep(l) == l.id # id IN SelectSeq(leads, Keep)
    /\ notified' = <<RemovedNotice>>

\* handleStartOutreach (part_000:80-83)
handleStartOutreach(selectedLeads) ==
    /\ outreachLeads' = selectedLeads
    /\ view' = "OUTREACH"

\* Leaves the daily-limit counter as it is.
handleSendEmailsSentOnly(targetLeads) ==
    LET Targeted(l) == \E j \in DOMAIN targetLeads : targetLeads[j].id = l.id IN
    /\ leads' = [k \in DOMAIN leads |->
                    IF Targeted(leads[k]) THEN [leads[k] EXCEPT !.status = "Contacted"]
                    ELSE leads[k]]
    /\ stats' = [stats EXCEPT !.sent = @ + Len(targetLeads)]
    /\ outreachLeads' = <<>>
    /\ notified' = <<SentNotice>>
    /\ view' = "DASHBOARD"

\* Counts an open for every email as well.
handleSendEmailsCountingOpens(targetLeads) ==
    LET Targeted(l) == \E j \in DOMAIN targetLeads : targetLeads[j].id = l.id IN
    /\ leads' = [k \in DOMAIN leads |->
                    IF Targeted(leads[k]) THEN [leads[k] EXCEPT !.status = "Contacted"]
                    ELSE leads[k]]
    /\ stats' = [stats EXCEPT !.sent = @ + Len(targetLeads),
                              !.opened = @ + Len(targetLeads),
                              !.dailyLimitUsed = @ + Len(targetLeads)]
    /\ outreachLeads' = <<>>
    /\ notified' = <<SentNotice>>
    /\ view' = "DASHBOARD"

\* handleSendEmails (part_000:85-102)
handleSendEmails(targetLeads) ==
    LET Targeted(l) == \E j \in DOMAIN targetLeads : targetLeads[j].id = l.id IN
    /\ leads' = [k \in DOMAIN leads |->
                    IF Targeted(leads[k]) THEN [leads[k] EXCEPT !.status = "Contacted"]
                    ELSE leads[k]]
    /\ stats' = [stats EXCEPT !.sent = @ + Len(targetLeads),
                              !.dailyLimitUsed = @ + Len(targetLeads)]
    /\ outreachLeads' = <<>>
    /\ notified' = <<SentNotice>>
    /\ view' = "DASHBOARD"

\* ---- Dashboard and Outreach: what they derive from dailyLimitUsed ----
\* part_001:19 (computed, and read nowhere)
remainingDailyLimit == DailyCap - stats.dailyLimitUsed

\* part_002:120: the bar of the daily limit is drawn red
LimitBarIsRed == stats.dailyLimitUsed >= 90

\* ---- LeadList (LeadDiscovery.tsx:418-431, 507-588) ----
toggleSelect(id) ==
    /\ UserActs
    /\ view = "LEADS"
    /\ id \in StoreIds
    /\ selectedIds' = IF id \in selectedIds THEN selectedIds \ {id} ELSE selectedIds \cup {id}
    /\ notified' = <<>>
    /\ UNCHANGED <<view, leads, nextId, discoveryVars, campaignVars, outreachVars,
                   tasks, inflight, serviceVars, lastBulk>>

\* The checkbox in the table header (lines 528-533).
SelectAllLeads ==
    /\ UserActs
    /\ view = "LEADS"
    /\ Len(leads) > 0
    /\ LET checked == Cardinality(selectedIds) = Len(leads) IN
       selectedIds' = IF checked THEN {} ELSE StoreIds
    /\ notified' = <<>>
    /\ UNCHANGED <<view, leads, nextId, discoveryVars, campaignVars, outreachVars,
                   tasks, inflight, serviceVars, lastBulk>>

\* The remove button of a row (line 588).
onRemoveLead(id) ==
    /\ UserActs
    /\ view = "LEADS"
    /\ id \in StoreIds
    /\ handleRemoveLead(id)
    /\ UNCHANGED <<view, nextId, discoveryVars, campaignVars, selectedIds, outreachVars,
                   tasks, inflight, serviceVars, lastBulk>>

EmailTask(id) ==
    [NoTask EXCEPT !.kind = "email", !.live = TRUE, !.pc = "await", !.index = id]

\* The effect that Outreach runs when it mounts (part_001:21-29): one
\* handleGenerateEmail call per lead of the batch, none awaited, as far as
\* each call's first await. The k-th call takes the k-th free slot.
GenerateOnMount(selectedLeads, slots) ==
    LET n == Len(selectedLeads)
        Taken(t) == \E k \in 1..n : slots[k] = t
        LeadAt(t) == selectedLeads[CHOOSE k \in 1..n : slots[k] = t]
    IN /\ loading' = {selectedLeads[k].id : k \in 1..n}
       /\ tasks' = [t \in TaskIds |-> IF Taken(t) THEN EmailTask(LeadAt(t).id) ELSE tasks[t]]
       /\ inflight' = inflight \cup
                         {Request(slots[k], "generateEmail", selectedLeads[k].id) : k \in 1..n}

\* handleOutreachClick (lines 428-431), shown while something is ticked
\* (line 507), and the mount of Outreach that follows.
handleOutreachClick ==
    /\ UserActs
    /\ view = "LEADS"
    /\ selectedIds # {}
    /\ LET Ticked(l) == l.id \in selectedIds
           selectedLeads == SelectSeq(leads, Ticked)
           slots == Ascending(FreeSlots)
       IN /\ Len(selectedLeads) <= Len(slots)
          /\ handleStartOutreach(selectedLeads)
          /\ GenerateOnMount(selectedLeads, slots)
    /\ selectedIds' = {}
    /\ emails' = {}
    /\ sentStatus' = {}
    /\ notified' = <<>>
    /\ UNCHANGED <<leads, nextId, stats, discoveryVars, serviceVars, lastBulk>>

\* ---- Outreach (part_001) ----
BatchIds == {outreachLeads[k].id : k \in DOMAIN outreachLeads}

\* handleGenerateEmail (lines 31-36) from the regenerate button (138-146),
\* as far as its await.
handleGenerateEmail(id) ==
    /\ UserActs
    /\ view = "OUTREACH"
    /\ id \in BatchIds
    /\ id \notin sentStatus
    /\ FreeSlots # {}
    /\ loading' = loading \cup {id}
    /\ tasks' = [tasks EXCEPT ![FreeSlot] = EmailTask(id)]
    /\ inflight' = inflight \cup {Request(FreeSlot, "generateEmail", id)}
    /\ notified' = <<>>
    /\ UNCHANGED <<view, leads, nextId, discoveryVars, campaignVars, selectedIds,
                   emails, sentStatus, serviceVars, lastBulk>>

\* handleGenerateEmail after its await: a rejection leaves the async
\* function (there is no try), so lines 34-35 do not run.
handleGenerateEmailResumes(t) ==
    /\ tasks[t].kind = "email"
    /\ tasks[t].pc = "resume"
    /\ LET s == tasks[t].settlement[1]
           live == tasks[t].live
           id == tasks[t].index
       IN IF s.settled = "resolved"
          THEN /\ emails' = SetState(live, emails, emails \cup {id})
               /\ loading' = SetState(live, loading, loading \ {id})
          ELSE UNCHANGED <<emails, loading>>
    /\ tasks' = [tasks EXCEPT ![t] = NoTask]
    /\ notified' = <<>>
    /\ UNCHANGED <<view, leads, nextId, discoveryVars, campaignVars, selectedIds,
                   sentStatus, inflight, serviceVars, interactions, lastBulk>>

\* The launch button (lines 148-156): handleLaunchEmail opens the mail
\* client, handleMarkAsSent (51-53) records the lead as sent.
handleMarkAsSent(id) ==
    /\ UserActs
    /\ view = "OUTREACH"
    /\ id \in BatchIds
    /\ id \notin sentStatus
    /\ id \notin loading
    /\ sentStatus' = sentStatus \cup {id}
    /\ notified' = <<>>
    /\ UNCHANGED <<view, leads, nextId, discoveryVars, campaignVars, selectedIds,
                   emails, loading, tasks, inflight, serviceVars, lastBulk>>

\* Takes the whole batch as sent.
SentLeadsWholeBatch(selectedLeads, sent) == selectedLeads

\* part_001:56-57
SentLeads(selectedLeads, sent) ==
    LET MarkedSent(l) == l.id \in sent IN SelectSeq(selectedLeads, MarkedSent)

\* handleFinishCampaign (part_001:55-61), enabled by line 97
handleFinishCampaign ==
    /\ UserActs
    /\ view = "OUTREACH"
    /\ Len(outreachLeads) # 0
    /\ Cardinality(sentStatus) # 0
    /\ handleSendEmails(SentLeads(outreachLeads, sentStatus))
    /\ OutreachUnmounted
    /\ tasks' = Orphaned(tasks)
    /\ UNCHANGED <<nextId, discoveryVars, selectedIds, inflight, serviceVars, lastBulk>>

\* onCancel (part_000:217) from the Cancel and Return buttons
onCancel ==
    /\ UserActs
    /\ view = "OUTREACH"
    /\ view' = "LEADS"
    /\ OutreachUnmounted
    /\ tasks' = Orphaned(tasks)
    /\ notified' = <<>>
    /\ UNCHANGED <<leads, nextId, discoveryVars, campaignVars, selectedIds, inflight,
                   serviceVars, lastBulk>>

\* Identifiers a lead of a run can have.
LeadIds == (-1)..MaxLeads

Next ==
    \/ \E v \in Views : Navigate(v)
    \/ \E v \in Industries : SetIndustry(v)
    \/ \E v \in Cities : SetCity(v)
    \/ SetRegion
    \/ \E i \in 0..2 : toggleSelection(i)
    \/ toggleSelectAll
    \/ handleSearch
    \/ \E i \in 0..2 : handleAddLead(i)
    \/ handleBulkAdd
    \/ \E q \in inflight : Settle(q)
    \/ \E t \in TaskIds : handleSearchResumes(t)
    \/ \E t \in TaskIds : handleAddLeadResumes(t)
    \/ \E t \in TaskIds : handleBulkAddResumes(t)
    \/ \E t \in TaskIds : PauseElapses(t)
    \/ \E id \in LeadIds : toggleSelect(id)
    \/ SelectAllLeads
    \/ \E id \in LeadIds : onRemoveLead(id)
    \/ handleOutreachClick
    \/ \E id \in LeadIds : handleGenerateEmail(id)
    \/ \E t \in TaskIds : handleGenerateEmailResumes(t)
    \/ \E id \in LeadIds : handleMarkAsSent(id)
    \/ handleFinishCampaign
    \/ onCancel

Init ==
    /\ rt = RetryIdle
    /\ hist = <<>>
    /\ UIInit

Spec == Init /\ [][Next]_vars

\* ------------------------------------------------- specification: withRetry
\* One withRetry call over an arbitrary operation; hist records what each
\* attempt of the operation did.
Values == {"v1", "v2"}

Ok(v) == [kind |-> "ok", value |-> v]

RetryInit ==
    /\ \E m \in 1..MaxRetriesBound : rt = RetryStart(m)
    /\ hist = <<>>
    /\ UIInit
    /\ leads = <<>>

FnSucceeds ==
    /\ rt.pc = "fn"
    /\ \E v \in Values :
          /\ rt' = RetryResolve(rt, v)
          /\ hist' = Append(hist, Ok(v))
    /\ UNCHANGED uiVars

FnFails ==
    /\ rt.pc = "fn"
    /\ \E e \in ApiErrors \cup {ErrEmptyQualification, ErrEmptyEmail}, j \in Jitters :
          /\ rt' = RetryReject(rt, e, j)
          /\ hist' = Append(hist, e)
    /\ UNCHANGED uiVars

BackoffElapses ==
    /\ rt.pc = "sleep"
    /\ rt' = RetryWake(rt)
    /\ UNCHANGED <<hist, uiVars>>

RetryNext == FnSucceeds \/ FnFails \/ BackoffElapses

SpecRetry == RetryInit /\ [][RetryNext]_vars

\* ---------------------------------------------- specification: discoverLeads
\* One discoverLeads call: withRetry with the default maxRetries around the
\* generation request and the parse of its response text.
TextTokens == {"[", "]", ",", "x", "A", "B"}

RECURSIVE TextsOfLen(_)
TextsOfLen(n) ==
    IF n = 0 THEN {<<>>}
    ELSE {Append(t, c) : t \in TextsOfLen(n - 1), c \in TextTokens}

Texts == UNION {TextsOfLen(n) : n \in 0..MaxTextLen}

\* The backoff delays do not bear on parsing; one jitter value is explored.
DiscoverJitters == {0}

DiscoverInit ==
    /\ rt = RetryStart(DefaultMaxRetries)
    /\ hist = <<>>
    /\ UIInit
    /\ leads = <<>>

GenerateContentFails ==
    /\ rt.pc = "fn"
    /\ \E e \in ApiErrors, j \in DiscoverJitters :
          /\ rt' = RetrySettle(rt, DiscoverFn(e), j)
          /\ hist' = Append(hist, e)
    /\ UNCHANGED uiVars

GenerateContentResponds ==
    /\ rt.pc = "fn"
    /\ \E resp \in {Response(t) : t \in Texts} \cup {NoTextResponse}, j \in DiscoverJitters :
          /\ rt' = RetrySettle(rt, DiscoverFn(resp), j)
          /\ hist' = Append(hist, resp)
    /\ UNCHANGED uiVars

DiscoverNext == GenerateContentFails \/ GenerateContentResponds \/ BackoffElapses

SpecDiscover == DiscoverInit /\ [][DiscoverNext]_vars

\* ================================================================== claims
Last(s) == s[Len(s)]

\* The rate-limit signature as the specification words it.
RateLimitSignature(e) ==
    /\ e.kind = "error"
    /\ \/ \E k \in DOMAIN e.message : e.message[k] \in {"429", "quota"}
       \/ e.status = 429

AllRateLimited(h) == \A k \in DOMAIN h : RateLimitSignature(h[k])

\* C1: an operation that fails with a rate-limit error on its first k
\* attempts (k < maxRetries) and then succeeds makes withRetry return that
\* success value after exactly k+1 attempts and k waits, the wait after
\* failed attempt i being at least 2^i seconds.
C1_RetriesThenReturns ==
    (/\ hist # <<>>
     /\ Last(hist).kind = "ok"
     /\ Len(hist) - 1 < rt.max
     /\ AllRateLimited(SubSeq(hist, 1, Len(hist) - 1)))
    => LET k == Len(hist) - 1 IN
       /\ rt.pc = "returned"
       /\ rt.result = Last(hist).value
       /\ rt.attempts = k + 1
       /\ Len(rt.delays) = k
       /\ \A i \in 0..(k - 1) : rt.delays[i + 1] >= Pow2(i) * 1000

C1_Witness ==
    /\ rt.pc = "returned"
    /\ rt.max = DefaultMaxRetries
    /\ Len(hist) = 3
    /\ rt.delays[2] >= 2000

\* C2: an operation whose failure is not a rate-limit error (the
\* empty-response failure included) makes withRetry fail with that same
\* error after exactly one attempt and no wait, whatever maxRetries is.
C2_OtherErrorFailsAtOnce ==
    (/\ hist # <<>>
     /\ hist[1].kind = "error"
     /\ ~RateLimitSignature(hist[1]))
    => /\ rt.pc = "thrown"
       /\ rt.error = hist[1]
       /\ rt.attempts = 1
       /\ rt.delays = <<>>
       /\ Len(hist) = 1

C2_Witness ==
    /\ rt.pc = "thrown"
    /\ rt.max = MaxRetriesBound
    /\ hist = <<ErrEmptyQualification>>

\* C3: an operation that fails with a rate-limit error on every attempt is
\* invoked exactly maxRetries times with maxRetries-1 waits, and withRetry
\* then fails with the last attempt's error; the operation is never
\* invoked more than maxRetries times.
C3_ExhaustsThenThrowsLast ==
    /\ rt.attempts <= rt.max
    /\ (Len(hist) = rt.max /\ AllRateLimited(hist))
       => /\ rt.pc = "thrown"
          /\ rt.error = Last(hist)
          /\ rt.attempts = rt.max
          /\ Len(rt.delays) = rt.max - 1
    /\ (AllRateLimited(hist) /\ Len(hist) < rt.max) => rt.pc \in {"fn", "sleep"}

C3_Witness ==
    /\ rt.pc = "thrown"
    /\ rt.max = DefaultMaxRetries
    /\ hist = <<ErrStatus429, ErrMsgQuota, ErrMsg429>>

\* The valid JSON arrays that occur as substrings of a text.
ValidArraySubstrings(t) ==
    {SubSeq(t, i, j) : i \in DOMAIN t, j \in DOMAIN t} \cap
    {s \in UNION {TextsOfLen(n) : n \in 2..Len(t)} : s[1] = "[" /\ JSONParse(s).ok}

\* C5: for every discovery response text that contains a syntactically
\* valid JSON array as a substring, with any text (other brackets included)
\* around it, discoverLeads returns that array's elements, unchanged.
C5_ValidArrayIsReturned ==
    (/\ hist # <<>>
     /\ Last(hist).kind = "response"
     /\ ValidArraySubstrings(TextOrEmpty(Last(hist))) # {})
    => /\ rt.pc = "returned"
       /\ \E s \in ValidArraySubstrings(TextOrEmpty(Last(hist))) :
              rt.result = JSONParse(s).value

\* "[" followed later by "]", as the specification words it.
ArrayShaped(t) == \E i \in DOMAIN t, j \in DOMAIN t : i < j /\ t[i] = "[" /\ t[j] = "]"

\* C6: a discovery response text with no array-shaped substring (an empty
\* or missing text included) makes discoverLeads return the empty list:
\* no error, and that response is followed by no retry and no wait.
C6_NoArrayReturnsEmpty ==
    (/\ hist # <<>>
     /\ Last(hist).kind = "response"
     /\ ~ArrayShaped(TextOrEmpty(Last(hist))))
    => /\ rt.pc = "returned"
       /\ rt.result = <<>>
       /\ rt.attempts = Len(hist)
       /\ Len(rt.delays) = Len(hist) - 1

C6_Witness ==
    /\ rt.pc = "returned"
    /\ hist = <<Response(<<"]", "x", "[">>)>>
    /\ rt.attempts = 1
    /\ rt.delays = <<>>

\* The notification the specification expects for a failure of a search or
\* a single-add.
ExpectedFailureNotice(kind, e) ==
    IF kind = "search"
    THEN Notice(IF RateLimitSignature(e)
                THEN "Daily search quota exceeded. Try again in a few minutes."
                ELSE "Failed to discover leads.", "error")
    ELSE Notice(IF RateLimitSignature(e)
                THEN "Qualification quota hit. Retrying..."
                ELSE "Failed to qualify lead", "error")

\* C4: a failure that carries the rate-limit signature (message contains
\* "429" or "quota", or status is 429) and reaches handleSearch or
\* handleAddLead is notified as quota exceeded, never as the generic
\* failure; every other failure is notified as the generic one.
C4_QuotaFailureGetsQuotaNotice ==
    [][\A t \in TaskIds :
          (/\ tasks[t].pc = "resume"
           /\ tasks[t].kind \in {"search", "add"}
           /\ tasks[t].settlement[1].settled = "rejected")
          => notified' = <<ExpectedFailureNotice(tasks[t].kind,
                                                tasks[t].settlement[1].error[1])>>]_vars

PriorityScores == {"High", "Medium", "Low"}

\* C7: every successful qualifyLead call returns a score that is one of
\* High, Medium, Low, so every lead in the store has such a priorityScore,
\* whatever non-empty text the generation API returned.
C7_ScoreIsEnumerated ==
    /\ \A t \in TaskIds :
          (/\ tasks[t].pc = "resume"
           /\ tasks[t].kind \in {"add", "bulk"}
           /\ tasks[t].settlement[1].settled = "resolved")
          => tasks[t].settlement[1].value[1].score \in PriorityScores
    /\ \A k \in DOMAIN leads : leads[k].priorityScore \in PriorityScores

\* The step in which the bulk-add of slot t ends.
BulkEnds(t) == tasks[t].kind = "bulk" /\ tasks'[t].kind # "bulk"

\* The candidate fields of lead are those of candidate i of list.
BuiltFrom(lead, list, i) ==
    /\ lead.businessName = OrElse(list[i + 1].businessName, "Unknown")
    /\ lead.website = OrElse(list[i + 1].website, "Not listed")
    /\ lead.phoneNumber = OrElse(list[i + 1].phoneNumber, "Not listed")
    /\ lead.status = "New"

\* The leads appended to the store by the step.
Appended == SubSeq(leads', Len(leads) + 1, Len(leads'))

RequestsOf(t) == {q \in inflight : q.task = t}

\* C9: during one bulk-add at most one qualification request of the batch
\* is in flight, and the request for the next candidate starts only when
\* none of the batch is in flight.
C9_OneRequestInFlight ==
    /\ \A t \in TaskIds : tasks[t].kind = "bulk" => Cardinality(RequestsOf(t)) <= 1
    /\ \A t \in TaskIds :
          (tasks[t].kind = "bulk" /\ tasks[t].pc \in {"resume", "pause"}) => RequestsOf(t) = {}

C9_Witness ==
    \E t \in TaskIds :
        /\ tasks[t].kind = "bulk"
        /\ Len(tasks[t].issued) = 2
        /\ Len(tasks[t].indices) = 3
        /\ Cardinality(RequestsOf(t)) = 1

StrictlyIncreasing(s) == \A j \in DOMAIN s, k \in DOMAIN s : j < k => s[j] < s[k]

\* C10 as claimed: bulk-add issues its qualification requests in strictly
\* increasing candidate-list index order, whatever the selection order.
C10_IssuedInIndexOrder ==
    \A t \in TaskIds : tasks[t].kind = "bulk" => StrictlyIncreasing(tasks[t].issued)

\* C10 (amended): bulk-add issues its qualification requests in the order
\* in which the candidates were put into the selection, which is increasing
\* index order when the selection was made by select-all.
C10_IssuedInSelectionOrder ==
    /\ \A t \in TaskIds : tasks[t].kind = "bulk" =>
          /\ Len(tasks[t].issued) <= Len(tasks[t].sel)
          /\ tasks[t].issued = SubSeq(tasks[t].sel, 1, Len(tasks[t].issued))
          /\ Len(tasks[t].issued) = tasks[t].pos
    /\ lastBulk.finished => lastBulk.issued = lastBulk.sel

C10_Witness ==
    \E t \in TaskIds :
        /\ tasks[t].kind = "bulk"
        /\ tasks[t].sel = <<2, 0>>
        /\ tasks[t].issued = <<2, 0>>

\* The candidates of the bulk-add of slot t whose qualification failed.
FailedIn(task) == Elements(task.issued) \ Elements(task.qualified)

IsPending(list, candidate) == \E k \in DOMAIN list : list[k] = candidate

\* C11: after a bulk-add in which at least one qualification succeeded and
\* at least one failed, the candidates whose qualification failed are still
\* in the pending candidate list; only the candidates that were added to
\* the store are removed from it.
C11_FailedCandidatesStayPending ==
    [][\A t \in TaskIds :
          (/\ BulkEnds(t)
           /\ tasks[t].qualified # <<>>
           /\ FailedIn(tasks[t]) # {})
          => \A i \in FailedIn(tasks[t]) :
                IsPending(discoveredLeads', tasks[t].list[i + 1])]_vars

\* The name equals, ignoring case, the business name of a lead in store.
NameInStore(store, name) ==
    \E k \in DOMAIN store : ToLowerCase(store[k].businessName) = ToLowerCase(name)

\* No index of the selection refers to a candidate of list that store
\* already holds.
NoDuplicateSelected(selection, list, store) ==
    \A k \in DOMAIN selection :
        selection[k] < Len(list) => ~NameInStore(store, list[selection[k] + 1].businessName)

\* The bulk-add of slot t takes the candidate it has just qualified into
\* its batch.
BulkTakes(t) ==
    /\ tasks[t].kind = "bulk"
    /\ tasks[t].pc = "resume"
    /\ tasks[t].settlement[1].settled = "resolved"

\* C12: in every reachable state no index in the bulk selection refers to
\* a candidate whose business name equals, ignoring case, the name of a
\* stored lead (toggleSelection and toggleSelectAll never put one in), and
\* so a bulk-add never processes a candidate that the store already holds.
C12_NoDuplicateSelectedOrProcessed ==
    [][/\ NoDuplicateSelected(selectedIndices', discoveredLeads', leads')
       /\ \A t \in TaskIds : BulkTakes(t) =>
             ~NameInStore(leads, tasks[t].list[tasks[t].indices[tasks[t].pos] + 1].businessName)]_vars

\* The single-add of slot t continues after a successful qualification.
SingleAddSucceeds(t) ==
    /\ tasks[t].kind = "add"
    /\ tasks[t].pc = "resume"
    /\ tasks[t].settlement[1].settled = "resolved"

\* Every identifier handed out so far: stored leads and leads of batches
\* not committed yet.
IdsInUse ==
    {leads[k].id : k \in DOMAIN leads}
    \cup UNION {{tasks[t].validLeads[k].id : k \in DOMAIN tasks[t].validLeads} : t \in TaskIds}

\* C13: a successful single-add of candidate i on an empty store leaves
\* the store with exactly one lead: status New, a fresh identifier, the
\* qualification's score and reason, website and phone number the
\* candidate's or 'Not listed' when absent; candidate i is no longer in
\* the pending list.
C13_SingleAddOnEmptyStore ==
    [][\A t \in TaskIds :
          (SingleAddSucceeds(t) /\ leads = <<>>) =>
          LET candidate == tasks[t].list[tasks[t].index + 1]
              qualification == tasks[t].settlement[1].value[1]
          IN /\ Len(leads') = 1
             /\ leads'[1].status = "New"
             /\ leads'[1].id \notin IdsInUse
             /\ leads'[1].priorityScore = qualification.score
             /\ leads'[1].priorityReason = qualification.reason
             /\ leads'[1].website = IF candidate.website = "" THEN "Not listed"
                                    ELSE candidate.website
             /\ leads'[1].phoneNumber = IF candidate.phoneNumber = "" THEN "Not listed"
                                        ELSE candidate.phoneNumber
             /\ ~IsPending(discoveredLeads', candidate)]_vars

C13_Witness ==
    /\ lastBulk = NoBulk
    /\ Len(leads) = 1
    /\ leads[1].businessName = "Bolt"
    /\ leads[1].website = "Not listed"
    /\ leads[1].phoneNumber = "Not listed"
    /\ leads[1].priorityScore = "High"
    /\ leads[1].status = "New"
    /\ notified = <<AddedNotice(1)>>
    /\ discoveredLeads = <<>>

\* The lead that an add builds from candidate under the search parameters
\* sp has the candidate's industry and city, or those of sp where the
\* candidate has none.
DefaultsFrom(lead, candidate, sp) ==
    /\ lead.industry = IF candidate.industry = "" THEN sp.industry ELSE candidate.industry
    /\ lead.city = IF candidate.city = "" THEN sp.city ELSE candidate.city

\* C14: when a candidate lacks industry or city, the lead added for it, by
\* single-add or by bulk-add, gets the industry / city of the search that
\* produced the candidate, even if the user changed the inputs or switched
\* region between the search and the add.
C14_DefaultsFromProducingSearch ==
    [][/\ \A t \in TaskIds : SingleAddSucceeds(t) =>
             DefaultsFrom(leads'[Len(leads')], tasks[t].list[tasks[t].index + 1],
                          tasks[t].found)
       /\ \A t \in TaskIds : BulkTakes(t) =>
             DefaultsFrom(tasks'[t].validLeads[Len(tasks'[t].validLeads)],
                          tasks[t].list[tasks[t].indices[tasks[t].pos] + 1],
                          tasks[t].found)]_vars

\* The step in which a campaign is finished.
CampaignFinishes == view = "OUTREACH" /\ notified' = <<SentNotice>>

\* The identifiers of the leads of the outreach batch that are marked sent.
MarkedSentIds == {id \in BatchIds : id \in sentStatus}

\* C15: a campaign finish with n leads of the outreach batch marked sent
\* increases stats.sent and stats.dailyLimitUsed by exactly n each, sets
\* the status of exactly those n leads to Contacted, and leaves every other
\* stored lead and every other field of the n leads unchanged.
C15_FinishCountsAndMarksSentLeads ==
    [][CampaignFinishes =>
          LET n == Cardinality(MarkedSentIds) IN
          /\ n > 0
          /\ stats'.sent = stats.sent + n
          /\ stats'.dailyLimitUsed = stats.dailyLimitUsed + n
          /\ Len(leads') = Len(leads)
          /\ Cardinality({k \in DOMAIN leads : leads[k].id \in MarkedSentIds}) = n
          /\ \A k \in DOMAIN leads :
                leads'[k] = IF leads[k].id \in MarkedSentIds
                            THEN [leads[k] EXCEPT !.status = "Contacted"]
                            ELSE leads[k]]_vars

C15_Witness ==
    /\ view = "DASHBOARD"
    /\ notified = <<SentNotice>>
    /\ stats.sent = DailyCap
    /\ stats.dailyLimitUsed = DailyCap
    /\ Len(leads) = 2
    /\ leads[1] = [StoredLead EXCEPT !.status = "Contacted"]
    /\ leads[2] = RepliedLead

\* The place of a status in the order New, Qualified, Contacted,
\* Responded / Unsubscribed (types.ts:12).
StatusRank(status) ==
    CASE status = "New" -> 0
      [] status = "Qualified" -> 1
      [] status = "Contacted" -> 2
      [] status = "Responded" -> 3
      [] status = "Unsubscribed" -> 3

\* C16: no operation moves the status of a stored lead backward in the
\* order New, Qualified, Contacted, Responded / Unsubscribed; a lead that
\* is already Contacted, Responded or Unsubscribed and is marked sent in an
\* outreach batch does not end with an earlier status after the finish.
C16_StatusNeverMovesBackward ==
    [][\A k \in DOMAIN leads, j \in DOMAIN leads' :
          leads'[j].id = leads[k].id =>
             StatusRank(leads'[j].status) >= StatusRank(leads[k].status)]_vars

IdsOf(store) == [k \in DOMAIN store |-> store[k].id]

UniqueIds(store) ==
    \A j \in DOMAIN store, k \in DOMAIN store : store[j].id = store[k].id => j = k

\* The leads of s are leads of b, in the same order.
RECURSIVE IsSubsequence(_, _)
IsSubsequence(s, b) ==
    IF s = <<>> THEN TRUE
    ELSE IF b = <<>> THEN FALSE
    ELSE IF Head(s) = Head(b) THEN IsSubsequence(Tail(s), Tail(b))
    ELSE IsSubsequence(s, Tail(b))

\* C17: in every reachable state no two leads of the store have the same
\* identifier, and no operation (add, remove, campaign finish) changes the
\* identifier of a lead that stays in the store: a step keeps the
\* identifiers at their places and appends, or drops some of them.
C17_IdsUniqueAndKept ==
    /\ []UniqueIds(leads)
    /\ [][IF Len(leads') >= Len(leads)
          THEN SubSeq(IdsOf(leads'), 1, Len(leads)) = IdsOf(leads)
          ELSE IsSubsequence(IdsOf(leads'), IdsOf(leads))]_vars

C17_Witness ==
    /\ Len(leads) = 1
    /\ leads[1] = [RepliedLead EXCEPT !.status = "Contacted"]
    /\ stats.sent = DailyCap
    /\ notified = <<SentNotice>>

\* What the program shows of the daily limit: the bar on the Dashboard,
\* red from 90 on. No notification and no piece of state speaks of the cap.
LimitWarningShown == view = "DASHBOARD" /\ LimitBarIsRed

\* C18: in every reachable state in which stats.dailyLimitUsed is greater
\* than 100 an explicit warning state is set: no sequence of campaign
\* finishes takes dailyLimitUsed above the cap without a warning.
C18_OverCapIsWarned ==
    stats.dailyLimitUsed > DailyCap => LimitWarningShown

\* C19: campaign stats change only in the campaign-finish step: search,
\* single-add, bulk-add, remove-lead, start-outreach and cancel-outreach
\* leave all five counters unchanged, and the finish leaves opened, replied
\* and clicks unchanged.
C19_StatsChangeOnlyAtFinish ==
    [][/\ stats' # stats => CampaignFinishes
       /\ stats'.opened = stats.opened
       /\ stats'.replied = stats.replied
       /\ stats'.clicks = stats.clicks]_vars

C19_Witness ==
    /\ stats = [initialStats EXCEPT !.sent = 1, !.dailyLimitUsed = 1]
    /\ leads = <<[StoredLead EXCEPT !.status = "Contacted"]>>
    /\ view = "LEADS"

\* The email-drafting requests that have not settled.
EmailRequests == {q \in inflight : q.call = "generateEmail"}

\* C20: when an outreach batch of several leads is opened, the
\* email-drafting requests of the batch are sequenced: at most one
\* generateEmail request is in flight at any time.
C20_OneEmailRequestInFlight ==
    Cardinality({q \in EmailRequests : tasks[q.task].live}) <= 1

\* A handler of the given kind, started by the mounted LeadDiscovery, has
\* not finished.
Running(kind) == \E t \in TaskIds : tasks[t].kind = kind /\ tasks[t].live

\* The busy flag that a handler of the given kind sets is clear.
FlagClear(kind, searching, qualifying, bulkAdding) ==
    CASE kind = "search" -> ~searching
      [] kind = "add"    -> qualifying = ""
      [] kind = "bulk"   -> ~bulkAdding

\* C21: after a search, single-add or bulk-add finishes, whether its API
\* calls succeeded or failed, its busy flag (isSearching, isQualifying,
\* isBulkAdding) is cleared: the flag is clear in the state the handler's
\* last step leaves, and a flag is set only while a handler that set it is
\* still running.
C21_BusyFlagClearedAtFinish ==
    /\ [](\A kind \in {"search", "add", "bulk"} :
             ~FlagClear(kind, isSearching, isQualifying, isBulkAdding) => Running(kind))
    /\ [][\A t \in TaskIds :
             (/\ tasks[t].kind \in {"search", "add", "bulk"}
              /\ tasks[t].live
              /\ tasks'[t].kind = "none")
             => FlagClear(tasks[t].kind, isSearching', isQualifying', isBulkAdding')]_vars

C21_Witness ==
    /\ view = "FINDER"
    /\ notified = <<AddFailureNotice(ErrNetwork)>>
    /\ isQualifying = ""
    /\ ~isSearching
    /\ discoveredLeads # <<>>

\* The email draft of slot t continues after its request failed.
DraftFails(t) ==
    /\ tasks[t].kind = "email"
    /\ tasks[t].live
    /\ tasks[t].pc = "resume"
    /\ tasks[t].settlement[1].settled = "rejected"

\* Another draft for the same lead is still under way.
OtherDraftOf(t) ==
    \E u \in TaskIds \ {t} :
        tasks[u].kind = "email" /\ tasks[u].live /\ tasks[u].index = tasks[t].index

\* C22: after an email-drafting request for a lead fails, that lead's
\* loading flag is cleared, so that the card leaves the drafting state:
\* when the failed handler ends and no other draft of the lead is under
\* way, the lead is not loading.
C22_LoadingClearedAfterFailure ==
    [][\A t \in TaskIds :
          (DraftFails(t) /\ ~OtherDraftOf(t)) => tasks[t].index \notin loading']_vars

\* The bulk-add of slot t takes a step of its own: past a settled
\* qualification or past its pause.
BulkSteps(t) ==
    /\ tasks[t].kind = "bulk"
    /\ tasks[t].pc \in {"resume", "pause"}
    /\ tasks'[t].pc # tasks[t].pc

\* C23: a bulk-add changes the lead store at most once, after the last
\* selected candidate has been processed: its steps before its last leave
\* the store unchanged, and when no qualification succeeded its last step
\* leaves the store, the pending list and the selection unchanged.
C23_OneCommitAfterLastCandidate ==
    [][\A t \in TaskIds : BulkSteps(t) =>
          IF ~BulkEnds(t) THEN leads' = leads
          ELSE /\ tasks[t].issued = tasks[t].sel
               /\ IF tasks[t].qualified = <<>>
                  THEN /\ leads' = leads
                       /\ discoveredLeads' = discoveredLeads
                       /\ selectedIndices' = selectedIndices
                  ELSE Len(leads') = Len(leads) + Len(tasks[t].qualified)]_vars

C23_Witness ==
    /\ view = "FINDER"
    /\ lastBulk.finished
    /\ lastBulk.qualified = <<>>
    /\ Len(lastBulk.sel) = 2
    /\ selectedIndices = lastBulk.sel
    /\ discoveredLeads = lastBulk.list
    /\ leads = <<>>
    /\ ~isBulkAdding

\* The bulk-add of slot t continues after a failed qualification.
BulkSkips(t) ==
    /\ tasks[t].kind = "bulk"
    /\ tasks[t].pc = "resume"
    /\ tasks[t].settlement[1].settled = "rejected"

\* The step issues a qualification request of the bulk-add of slot t.
BulkIssues(t) ==
    /\ tasks[t].kind = "bulk"
    /\ tasks'[t].kind = "bulk"
    /\ Len(tasks'[t].issued) > Len(tasks[t].issued)

\* C24: in a bulk-add a pause follows every successfully qualified
\* candidate before the next candidate's request is issued, and no pause
\* follows a candidate whose qualification failed.
C24_PauseAfterSuccessOnly ==
    [][\A t \in TaskIds :
          /\ BulkTakes(t) => (tasks'[t].pc = "pause" /\ inflight' = inflight)
          /\ BulkSkips(t) => tasks'[t].pc # "pause"
          /\ BulkIssues(t) => (tasks[t].pc = "pause" \/ BulkSkips(t))]_vars

C24_Witness ==
    \E t \in TaskIds :
        /\ tasks[t].kind = "bulk"
        /\ tasks[t].pc = "pause"
        /\ Len(tasks[t].issued) = 2
        /\ Len(tasks[t].qualified) = 1
        /\ Len(tasks[t].indices) = 3

\* The step in which the outreach session is cancelled: setView(LEADS)
\* while Outreach is shown.
OutreachCancelled == view = "OUTREACH" /\ view' = "LEADS" /\ notified' = <<>>

\* The step in which an outreach session starts.
OutreachStarts == view # "OUTREACH" /\ view' = "OUTREACH"

\* C25: cancelling an outreach session discards its email drafts and its
\* sent marks and leaves the lead store and the stats unchanged, even when
\* leads had been marked sent; a later session starts with no drafts and
\* no sent marks.
C25_CancelDiscardsSession ==
    [][/\ OutreachCancelled =>
             /\ emails' = {}
             /\ sentStatus' = {}
             /\ leads' = leads
             /\ stats' = stats
       /\ OutreachStarts => (emails' = {} /\ sentStatus' = {})]_vars

C25_Witness ==
    /\ view = "OUTREACH"
    /\ \E t \in TaskIds : tasks[t].kind = "email" /\ ~tasks[t].live
    /\ \E t \in TaskIds : tasks[t].kind = "email" /\ tasks[t].live
    /\ emails = {}
    /\ sentStatus = {}
    /\ loading = BatchIds
    /\ stats = initialStats
    /\ leads = <<StoredLead>>

\* The qualification requests of the mounted discovery view that have not
\* settled.
QualifyRequestsInFlight ==
    {q \in inflight : q.call = "qualifyLead" /\ tasks[q.task].live}

\* C26: across all handlers of the discovery view at most one
\* qualification request is in flight at any time: a bulk-add cannot start
\* while a single-add's qualification is pending, and a single-add cannot
\* start while a bulk-add is running.
C26_OneQualificationInFlight ==
    /\ Cardinality(QualifyRequestsInFlight) <= 1
    /\ ~(Running("add") /\ Running("bulk"))

\* The candidates that filtering the indices `dropped` out of list removes.
RemovedFrom(list, dropped) == {list[i + 1] : i \in {j \in dropped : j < Len(list)}}

\* C27: under every interleaving of search, single-add and bulk-add, an
\* add removes from the pending candidate list only candidates that it has
\* qualified itself, also when a search result or another add has changed
\* the list while the add's qualification was awaited.
C27_AddRemovesOnlyItsCandidates ==
    [][\A t \in TaskIds :
          /\ (SingleAddSucceeds(t) /\ tasks[t].live) =>
                RemovedFrom(discoveredLeads, {tasks[t].index})
                   \subseteq {tasks[t].list[tasks[t].index + 1]}
          /\ (BulkEnds(t) /\ tasks[t].live /\ tasks[t].qualified # <<>>) =>
                RemovedFrom(discoveredLeads, Elements(tasks[t].sel))
                   \subseteq {tasks[t].list[i + 1] : i \in Elements(tasks[t].qualified)}]_vars

\* The leads of the store that were added in this run: the saved ones
\* have the identifiers below 1.
AddedInRun == {k \in DOMAIN leads : leads[k].id >= 1}

\* C28: starting from an empty store, after any sequence of searches,
\* selections, single-adds and bulk-adds the store never holds two leads
\* whose business names are equal ignoring case. Stated for the leads that
\* the run has added, which are all the leads of a run that starts empty.
C28_NoTwoLeadsOfOneName ==
    \A j \in AddedInRun, k \in AddedInRun :
        j # k => ToLowerCase(leads[j].businessName) # ToLowerCase(leads[k].businessName)

\* C29: starting from the all-zero stats, stats.sent equals
\* stats.dailyLimitUsed in every reachable state and neither ever
\* decreases: no operation resets the daily-limit counter. (The saved
\* counters the model also starts from are equal as well.)
C29_SentEqualsDailyLimitUsed ==
    /\ [](stats.sent = stats.dailyLimitUsed)
    /\ [][/\ stats'.sent >= stats.sent
          /\ stats'.dailyLimitUsed >= stats.dailyLimitUsed]_vars

C29_Witness ==
    /\ stats = [initialStats EXCEPT !.sent = 1, !.dailyLimitUsed = 1]
    /\ view = "DASHBOARD"
    /\ notified = <<SentNotice>>

\* The single-add of slot t, started by the mounted view, continues after
\* a failed qualification.
SingleAddFails(t) ==
    /\ tasks[t].kind = "add"
    /\ tasks[t].live
    /\ tasks[t].pc = "resume"
    /\ tasks[t].settlement[1].settled = "rejected"

\* What a failed single-add of slot t leaves unchanged, and the one error
\* notification it raises.
FailedAddLeavesState(t) ==
    /\ leads' = leads
    /\ discoveredLeads' = discoveredLeads
    /\ selectedIndices' = selectedIndices
    /\ Len(notified') = 1
    /\ notified'[1].type = "error"

\* The candidate that the single-add of slot t was started for is still
\* at its place in the pending list.
StillPending(t) ==
    /\ tasks[t].index < Len(discoveredLeads)
    /\ discoveredLeads[tasks[t].index + 1] = tasks[t].list[tasks[t].index + 1]

\* The add button of candidate index is enabled in the state the step
\* leaves (LeadDiscovery.tsx:382-384).
AddButtonEnabledNext(index) ==
    /\ index < Len(discoveredLeads')
    /\ isQualifying' = ""
    /\ ~isBulkAdding'
    /\ ~NameInStore(leads', discoveredLeads'[index + 1].businessName)

\* C30: when the qualification of a single-add fails, the lead store, the
\* pending candidate list and the bulk selection are unchanged, exactly
\* one error notification is emitted, and the candidate, if a new search
\* has not replaced it meanwhile, can be added again.
C30_FailedSingleAdd ==
    [][\A t \in TaskIds : SingleAddFails(t) =>
          /\ FailedAddLeavesState(t)
          /\ StillPending(t) => AddButtonEnabledNext(tasks[t].index)]_vars

====
